---- MODULE Spec2Model ----
(***************************************************************************)
(* ballyregan: ProxyFetcher (fetcher.py) and ProxyListDownloadProvider     *)
(* (providers/proxy_list_download.py).                                      *)
(*                                                                          *)
(* Strings are sequences of one-character strings, so that str.split(':')   *)
(* and str.lower() are computed.  A Python list is a sequence.              *)
(***************************************************************************)
EXTENDS Integers, Sequences, FiniteSets

VARIABLES
    constructed,          \* "no" | "yes" | "failed": ProxyFetcher(...) not called / built / raised
    proxy_providers,      \* ProxyFetcher._proxy_providers: the providers, by index
    proxy_filterer,       \* ProxyFetcher._proxy_filterer: "None" | "injected" | "created"
    proxy_validator,      \* ProxyFetcher._proxy_validator: "None" | "injected" | "created"
    loop,                 \* ProxyFetcher.loop: "None" | "injected" | "created"
    connectivity_checks,  \* calls of has_internet_connection()
    pc,                   \* position of the running get / get_one call
    call,                 \* the running call as the caller made it: [op, protocols, anonymities, limit]
    gather_args,          \* the arguments _gather was called with: [protocols, anonymities, limit]
    max_workers,          \* ThreadPoolExecutor(max_workers=...)
    worker,               \* per provider: "idle" | "submitted" | "running" | "done" | "raised"
    starts,               \* per provider: how often its gather() was started in this call
    future,               \* per provider: what its gather() returned
    gathered_total,       \* number of candidates the providers returned in this call
    proxies,              \* _gather: proxies
    filtered_proxies,     \* _gather: filtered_proxies
    validating,           \* the list handed to filter_valid_proxies
    quota,                \* the limit handed to filter_valid_proxies
    probe,                \* per entry of validating: "scheduled" | "ok" | "failed" | "cancelled"
    confirmed,            \* the validator's accumulator, in completion order
    valid_proxies,        \* _gather: valid_proxies
    phases,               \* pipeline stages the call has entered, in order
    outcome,              \* what the caller observes: [kind, exc, items]
    raw_proxy,            \* input of raw_proxy_to_object
    parsed                \* its result: [done, exc, proxy]

vars == <<constructed, proxy_providers, proxy_filterer, proxy_validator, loop,
          connectivity_checks, pc, call, gather_args, max_workers, worker, starts,
          future,
          gathered_total, proxies, filtered_proxies, validating, quota, probe,
          confirmed, valid_proxies, phases, outcome, raw_proxy, parsed>>

fetcher_vars == <<constructed, proxy_providers, proxy_filterer, proxy_validator,
                  loop, connectivity_checks>>
call_vars == <<pc, call, gather_args, max_workers, worker, starts, future, gathered_total,
               proxies, filtered_proxies, validating, quota, probe, confirmed,
               valid_proxies, phases, outcome>>
parse_vars == <<raw_proxy, parsed>>

----------------------------------------------------------------------------
(* Bounds *)

MaxProviders == 2   \* length of _proxy_providers explored: 0..MaxProviders
MaxLimit == 2       \* limit argument of get explored: 0..MaxLimit
MaxRawLen == 5      \* length of the raw strings given to raw_proxy_to_object

----------------------------------------------------------------------------
(* Strings *)

Colon == ":"

\* The characters raw strings are drawn from.
Alphabet == {"H", "h", ":", "1", "x"}

Digits == {"0", "1", "2", "3", "4", "5", "6", "7", "8", "9"}

\* str.lower(), one character
LowerChar(c) ==
    CASE c = "H" -> "h"
      [] c = "S" -> "s"
      [] c = "T" -> "t"
      [] c = "P" -> "p"
      [] OTHER -> c

\* str.lower()
lower(s) == [i \in 1..Len(s) |-> LowerChar(s[i])]

\* str.split(sep): the fields between the separators, empty fields kept
RECURSIVE SplitFrom(_, _, _, _)
SplitFrom(s, sep, i, cur) ==
    IF i > Len(s) THEN <<cur>>
    ELSE IF s[i] = sep THEN <<cur>> \o SplitFrom(s, sep, i + 1, <<>>)
    ELSE SplitFrom(s, sep, i + 1, Append(cur, s[i]))

split(s, sep) == SplitFrom(s, sep, 1, <<>>)

\* All sequences over S of length at most n
SeqsUpTo(S, n) == UNION {[1..k -> S] : k \in 0..n}

Range(s) == {s[i] : i \in 1..Len(s)}

----------------------------------------------------------------------------
(* Data model *)

\* Protocols.values(): the protocols the provider queries, in order.
Protocols == << <<"h", "t", "t", "p">>, <<"s", "o", "c", "k", "s", "5">> >>

Anonymities == {"transparent", "anonymous", "elite"}

\* Proxy(ip=..., port=..., protocol=...): anonymity is not known before a probe.
Proxy(ip, port, protocol) ==
    [protocol |-> protocol, ip |-> ip, port |-> port, anonymity |-> "unknown"]

NoProxy == Proxy(<<>>, <<>>, <<>>)

\* The identity of a Proxy: (protocol, address, port).
Key(p) == <<p.protocol, p.ip, p.port>>

----------------------------------------------------------------------------
(* ProxyListDownloadProvider *)

\* raw_proxy_to_object(raw_proxy): [exc, proxy]; exc = "" when it returns.
raw_proxy_to_object(raw) ==
    LET fields == split(raw, Colon) IN
    IF Len(fields) # 3
    THEN [exc |-> "ProxyParseException", proxy |-> NoProxy]
    ELSE [exc |-> "",
          proxy |-> Proxy(fields[2], fields[3], lower(fields[1]))]

\* What the proxy-list server sends for one request.
GoodLine == <<"1", ":", "8">>
BadLine == <<"b", "a", "d">>

OkBodies == {<<>>, <<GoodLine>>, <<GoodLine, GoodLine>>, <<BadLine, GoodLine>>}

\* One response of self._session.get: it raised, it is not ok, or it carries lines.
Responses ==
    {[status |-> "exception", lines |-> <<>>], [status |-> "not_ok", lines |-> <<>>]}
    \cup {[status |-> "ok", lines |-> b] : b \in OkBodies}

\* f'{protocol}:{proxy}' for every line of response.text.splitlines()
proxies_with_protocol(protocol, lines) ==
    [j \in 1..Len(lines) |-> protocol \o <<Colon>> \o lines[j]]

\* _get_raw_proxies's loop from the i-th protocol on, with the list built so far.
RECURSIVE RawProxiesFrom(_, _, _)
RawProxiesFrom(resp, i, acc) ==
    IF i > Len(Protocols) THEN [exc |-> "", raw |-> acc]
    ELSE IF resp[i].status # "ok"
         THEN [exc |-> "ProxyGatherException", raw |-> <<>>]
         ELSE RawProxiesFrom(resp, i + 1,
                             acc \o proxies_with_protocol(Protocols[i], resp[i].lines))

\* _get_raw_proxies(): resp[i] is the server's response to the i-th protocol.
get_raw_proxies(resp) == RawProxiesFrom(resp, 1, <<>>)

\* The candidates parsed from raw strings; a string that does not parse is skipped.
RECURSIVE ParseAll(_)
ParseAll(raws) ==
    IF raws = <<>> THEN <<>>
    ELSE LET r == raw_proxy_to_object(Head(raws)) IN
         IF r.exc = "ProxyParseException" THEN ParseAll(Tail(raws))
         ELSE <<r.proxy>> \o ParseAll(Tail(raws))

\* IProxyProvider.gather(): [exc, proxies]; a transport error is raised to the caller.
gather(resp) ==
    LET r == get_raw_proxies(resp) IN
    IF r.exc # "" THEN [exc |-> r.exc, proxies |-> <<>>]
    ELSE [exc |-> "", proxies |-> ParseAll(r.raw)]

----------------------------------------------------------------------------
(* ProxyFetcher: construction *)

\* __new_validator(): the validator and the loop it runs on, given self.loop.
new_validator(l) ==
    IF l # "None" THEN [validator |-> "created", loop |-> l]
    ELSE [validator |-> "created", loop |-> "created"]

\* post_init with the connectivity check made after the collaborators are built.
post_init_check_last(has_conn, f, v, l) ==
    LET nv == new_validator(l) IN
    [exc |-> IF has_conn THEN "" ELSE "NoInternetConnection",
     filterer |-> IF f = "None" THEN "created" ELSE f,
     validator |-> IF v = "None" THEN nv.validator ELSE v,
     loop |-> IF v = "None" THEN nv.loop ELSE l]

\* __post_init__(): has_conn is what has_internet_connection() answers; f, v, l
\* are the filterer, validator and loop the caller passed ("None" when not passed).
post_init(has_conn, f, v, l) ==
    IF ~has_conn
    THEN [exc |-> "NoInternetConnection", filterer |-> f, validator |-> v, loop |-> l]
    ELSE LET nv == new_validator(l) IN
         [exc |-> "",
          filterer |-> IF f = "None" THEN "created" ELSE f,
          validator |-> IF v = "None" THEN nv.validator ELSE v,
          loop |-> IF v = "None" THEN nv.loop ELSE l]

Passed == {"None", "injected"}

NoOutcome == [kind |-> "none", exc |-> "", items |-> <<>>]
Raise(e) == [kind |-> "raise", exc |-> e, items |-> <<>>]
ReturnList(xs) == [kind |-> "list", exc |-> "", items |-> xs]

----------------------------------------------------------------------------
(* ProxyFetcher: the pipeline *)

\* max(len(self._proxy_providers), 1)
pool_size(n) == IF n > 1 THEN n ELSE 1

Running == {i \in 1..Len(worker) : worker[i] = "running"}

\* The merge not waiting for the workers.
NoBarrier == TRUE

\* Leaving the "with ThreadPoolExecutor(...)" block waits for every worker.
AllWorkersCompleted == \A i \in 1..Len(worker) : worker[i] \in {"done", "raised"}

\* chain.from_iterable(proxies_generator) from the i-th future on: the results in
\* provider order; the first future that holds an exception raises it.
RECURSIVE ChainFrom(_, _, _)
ChainFrom(futs, i, acc) ==
    IF i > Len(futs) THEN [exc |-> "", proxies |-> acc]
    ELSE IF futs[i].exc # "" THEN [exc |-> futs[i].exc, proxies |-> acc]
    ELSE ChainFrom(futs, i + 1, acc \o futs[i].proxies)

chain(futs) == ChainFrom(futs, 1, <<>>)

\* list(S) for a set S: its elements, each once.
RECURSIVE ListOfSet(_)
ListOfSet(S) ==
    IF S = {} THEN <<>>
    ELSE LET x == CHOOSE y \in S : TRUE IN <<x>> \o ListOfSet(S \ {x})

\* list(...) of the chained candidates, without set(...).
merge_without_set(chained) == chained

\* list(set(...)) of the chained candidates
merge(chained) == ListOfSet(Range(chained))

\* ProxyFilterer.filter(proxies, protocols, anonymities): an empty allow-list does
\* not restrict; a candidate of unknown anonymity passes the anonymity filter.
FilterKeeps(p, protocols, anonymities) ==
    /\ protocols = <<>> \/ p.protocol \in Range(protocols)
    /\ anonymities = <<>> \/ p.anonymity = "unknown" \/ p.anonymity \in Range(anonymities)

RECURSIVE filter(_, _, _)
filter(ps, protocols, anonymities) ==
    IF ps = <<>> THEN <<>>
    ELSE IF FilterKeeps(Head(ps), protocols, anonymities)
         THEN <<Head(ps)>> \o filter(Tail(ps), protocols, anonymities)
         ELSE filter(Tail(ps), protocols, anonymities)

\* The validator given the unfiltered list.
validator_input_unfiltered(all_proxies, filtered) == all_proxies

\* The proxies argument of filter_valid_proxies in _gather
validator_input(all_proxies, filtered) == filtered

\* The validator stops once its accumulator holds limit proxies (limit > 0).
QuotaReached(acc, limit) == limit > 0 /\ Len(acc) >= limit

\* _gather without the emptiness check.
gather_result_unchecked(valid) == ReturnList(valid)

\* The end of _gather: an empty result is an error.
gather_result(valid) ==
    IF valid = <<>> THEN Raise("NoProxiesFound") ELSE ReturnList(valid)

\* get_one(protocols, anonymities): the arguments it calls _gather with
get_one(protocols, anonymities) ==
    [protocols |-> protocols, anonymities |-> anonymities, limit |-> 1]

\* get not passing its limit on.
get_dropping_limit(protocols, anonymities, limit) ==
    [protocols |-> protocols, anonymities |-> anonymities, limit |-> 0]

\* get(protocols, anonymities, limit): the arguments it calls _gather with
get(protocols, anonymities, limit) ==
    [protocols |-> protocols, anonymities |-> anonymities, limit |-> limit]

\* What get_one / get hand back to the caller, given what _gather returned.
get_one_return(r) == r
get_return(r) == r

NoCall == [op |-> "none", protocols |-> <<>>, anonymities |-> <<>>, limit |-> 0]
NoArgs == [protocols |-> <<>>, anonymities |-> <<>>, limit |-> 0]

\* The (protocols, anonymities) arguments explored: no restriction, or both given.
FilterArgs == {<< <<>>, <<>> >>, << <<Protocols[1]>>, <<"elite">> >>}

\* The calls a caller makes; get_one takes no limit.
Calls ==
    {[op |-> "get", protocols |-> fa[1], anonymities |-> fa[2], limit |-> n] :
        fa \in FilterArgs, n \in 0..MaxLimit}
    \cup {[op |-> "get_one", protocols |-> fa[1], anonymities |-> fa[2], limit |-> 0] :
        fa \in FilterArgs}

NoFuture == [exc |-> "", proxies |-> <<>>]
NotParsed == [done |-> FALSE, exc |-> "", proxy |-> NoProxy]

----------------------------------------------------------------------------
(* Initial state *)

IdleCall ==
    /\ pc = "idle"
    /\ call = NoCall
    /\ gather_args = NoArgs
    /\ max_workers = 0
    /\ worker = <<>>
    /\ starts = <<>>
    /\ future = <<>>
    /\ gathered_total = 0
    /\ proxies = <<>>
    /\ filtered_proxies = <<>>
    /\ validating = <<>>
    /\ quota = 0
    /\ probe = <<>>
    /\ confirmed = <<>>
    /\ valid_proxies = <<>>
    /\ phases = <<>>
    /\ outcome = NoOutcome

NoFetcher ==
    /\ constructed = "no"
    /\ proxy_providers = <<>>
    /\ proxy_filterer = "None"
    /\ proxy_validator = "None"
    /\ loop = "None"
    /\ connectivity_checks = 0

Init ==
    /\ NoFetcher
    /\ IdleCall
    /\ raw_proxy = <<>>
    /\ parsed = NotParsed

----------------------------------------------------------------------------
(* Actions *)

\* ProxyFetcher(...): the dataclass __init__ stores the fields, then __post_init__.
Construct ==
    /\ constructed = "no"
    /\ \E has_conn \in BOOLEAN, n \in 0..MaxProviders, f \in Passed, v \in Passed, l \in Passed :
         LET r == post_init(has_conn, f, v, l) IN
         /\ connectivity_checks' = connectivity_checks + 1
         /\ proxy_providers' = [i \in 1..n |-> "ProxyListDownloadProvider"]
         /\ proxy_filterer' = r.filterer
         /\ proxy_validator' = r.validator
         /\ loop' = r.loop
         /\ constructed' = IF r.exc = "" THEN "yes" ELSE "failed"
         /\ outcome' = IF r.exc = "" THEN NoOutcome ELSE Raise(r.exc)
    /\ UNCHANGED <<pc, call, gather_args, max_workers, worker, starts, future, gathered_total,
                   proxies, filtered_proxies, validating, quota, probe, confirmed,
                   valid_proxies, phases>>
    /\ UNCHANGED parse_vars

\* get / get_one is called: _gather starts, the executor is created and
\* executor.map submits one gather() per provider.
Call ==
    /\ constructed = "yes"
    /\ pc = "idle"
    /\ \E c \in Calls :
         /\ call' = c
         /\ gather_args' = IF c.op = "get_one"
                            THEN get_one(c.protocols, c.anonymities)
                            ELSE get(c.protocols, c.anonymities, c.limit)
    /\ pc' = "gathering"
    /\ max_workers' = pool_size(Len(proxy_providers))
    /\ worker' = [i \in 1..Len(proxy_providers) |-> "submitted"]
    /\ starts' = [i \in 1..Len(proxy_providers) |-> 0]
    /\ future' = [i \in 1..Len(proxy_providers) |-> NoFuture]
    /\ UNCHANGED <<gathered_total, proxies, filtered_proxies, validating, quota,
                   probe, confirmed, valid_proxies, phases, outcome>>
    /\ UNCHANGED fetcher_vars
    /\ UNCHANGED parse_vars

\* A pool thread takes provider i's work item and enters provider.gather().
WorkerStart(i) ==
    /\ pc = "gathering"
    /\ worker[i] = "submitted"
    /\ Cardinality(Running) < max_workers
    /\ worker' = [worker EXCEPT ![i] = "running"]
    /\ starts' = [starts EXCEPT ![i] = @ + 1]
    /\ UNCHANGED <<pc, call, gather_args, max_workers, future, gathered_total, proxies,
                   filtered_proxies, validating, quota, probe, confirmed,
                   valid_proxies, phases, outcome>>
    /\ UNCHANGED fetcher_vars
    /\ UNCHANGED parse_vars

\* provider.gather() of worker i ends: it returns its candidates or raises.
WorkerFinish(i) ==
    /\ pc = "gathering"
    /\ worker[i] = "running"
    /\ \E resp \in [1..Len(Protocols) -> Responses] :
         LET r == gather(resp) IN
         /\ future' = [future EXCEPT ![i] = r]
         /\ worker' = [worker EXCEPT ![i] = IF r.exc = "" THEN "done" ELSE "raised"]
    /\ UNCHANGED <<pc, call, gather_args, max_workers, starts, gathered_total, proxies,
                   filtered_proxies, validating, quota, probe, confirmed,
                   valid_proxies, phases, outcome>>
    /\ UNCHANGED fetcher_vars
    /\ UNCHANGED parse_vars

\* The with-block is left and _get_all_proxies_from_providers builds its result;
\* an exception a future holds leaves _gather and get / get_one.
Aggregate ==
    /\ pc = "gathering"
    /\ AllWorkersCompleted
    /\ LET c == chain(future) IN
       /\ phases' = Append(phases, "aggregate")
       /\ gathered_total' = Len(c.proxies)
       /\ IF c.exc # ""
          THEN /\ outcome' = Raise(c.exc)
               /\ pc' = "done"
               /\ UNCHANGED <<proxies, future>>
          ELSE /\ proxies' = merge(c.proxies)
               /\ pc' = "aggregated"
               /\ future' = [i \in 1..Len(future) |-> NoFuture]
               /\ UNCHANGED outcome
    /\ UNCHANGED <<call, gather_args, max_workers, worker, starts, filtered_proxies, validating,
                   quota, probe, confirmed, valid_proxies>>
    /\ UNCHANGED fetcher_vars
    /\ UNCHANGED parse_vars

\* self._proxy_filterer.filter(proxies, protocols=..., anonymities=...)
Filter ==
    /\ pc = "aggregated"
    /\ filtered_proxies' = filter(proxies, gather_args.protocols, gather_args.anonymities)
    /\ phases' = Append(phases, "filter")
    /\ pc' = "filtered"
    /\ UNCHANGED <<call, gather_args, max_workers, worker, starts, future, gathered_total, proxies,
                   validating, quota, probe, confirmed, valid_proxies, outcome>>
    /\ UNCHANGED fetcher_vars
    /\ UNCHANGED parse_vars

\* self._proxy_validator.filter_valid_proxies(proxies=filtered_proxies, limit=limit)
\* is entered: one probe per candidate is scheduled.
ValidateStart ==
    /\ pc = "filtered"
    /\ LET input == validator_input(proxies, filtered_proxies) IN
       /\ validating' = input
       /\ probe' = [i \in 1..Len(input) |-> "scheduled"]
    /\ quota' = gather_args.limit
    /\ confirmed' = <<>>
    /\ phases' = Append(phases, "validate")
    /\ pc' = "validating"
    /\ UNCHANGED <<call, gather_args, max_workers, worker, starts, future, gathered_total, proxies,
                   filtered_proxies, valid_proxies, outcome>>
    /\ UNCHANGED fetcher_vars
    /\ UNCHANGED parse_vars

\* The probe of candidate i completes: it failed, or it succeeded and classified
\* the proxy; reaching the quota cancels the probes still outstanding.
ProbeComplete(i) ==
    /\ pc = "validating"
    /\ probe[i] = "scheduled"
    /\ \/ /\ probe' = [probe EXCEPT ![i] = "failed"]
          /\ UNCHANGED confirmed
       \/ \E a \in Anonymities :
            LET acc == Append(confirmed, [validating[i] EXCEPT !.anonymity = a]) IN
            /\ confirmed' = acc
            /\ probe' = [j \in 1..Len(probe) |->
                           IF j = i THEN "ok"
                           ELSE IF probe[j] = "scheduled" /\ QuotaReached(acc, quota)
                                THEN "cancelled"
                                ELSE probe[j]]
    /\ UNCHANGED <<pc, call, gather_args, max_workers, worker, starts, future, gathered_total,
                   proxies, filtered_proxies, validating, quota, valid_proxies,
                   phases, outcome>>
    /\ UNCHANGED fetcher_vars
    /\ UNCHANGED parse_vars

\* filter_valid_proxies returns its accumulator once no probe is outstanding.
ValidateReturn ==
    /\ pc = "validating"
    /\ \A i \in 1..Len(probe) : probe[i] # "scheduled"
    /\ valid_proxies' = confirmed
    /\ pc' = "validated"
    /\ UNCHANGED <<call, gather_args, max_workers, worker, starts, future, gathered_total, proxies,
                   filtered_proxies, validating, quota, probe, confirmed, phases,
                   outcome>>
    /\ UNCHANGED fetcher_vars
    /\ UNCHANGED parse_vars

\* _gather raises NoProxiesFound or returns, and get / get_one hands the result on.
Return ==
    /\ pc = "validated"
    /\ LET r == gather_result(valid_proxies) IN
       outcome' = IF call.op = "get_one" THEN get_one_return(r) ELSE get_return(r)
    /\ pc' = "done"
    /\ UNCHANGED <<call, gather_args, max_workers, worker, starts, future, gathered_total, proxies,
                   filtered_proxies, validating, quota, probe, confirmed,
                   valid_proxies, phases>>
    /\ UNCHANGED fetcher_vars
    /\ UNCHANGED parse_vars

\* The caller has the result; the fetcher is ready for the next call.
CallEnd ==
    /\ pc = "done"
    /\ pc' = "idle"
    /\ call' = NoCall
    /\ gather_args' = NoArgs
    /\ max_workers' = 0
    /\ worker' = <<>>
    /\ starts' = <<>>
    /\ future' = <<>>
    /\ gathered_total' = 0
    /\ proxies' = <<>>
    /\ filtered_proxies' = <<>>
    /\ validating' = <<>>
    /\ quota' = 0
    /\ probe' = <<>>
    /\ confirmed' = <<>>
    /\ valid_proxies' = <<>>
    /\ phases' = <<>>
    /\ outcome' = NoOutcome
    /\ UNCHANGED fetcher_vars
    /\ UNCHANGED parse_vars

Next ==
    \/ Construct
    \/ Call
    \/ \E i \in 1..Len(worker) : WorkerStart(i)
    \/ \E i \in 1..Len(worker) : WorkerFinish(i)
    \/ Aggregate
    \/ Filter
    \/ ValidateStart
    \/ \E i \in 1..Len(probe) : ProbeComplete(i)
    \/ ValidateReturn
    \/ Return
    \/ CallEnd

Spec == Init /\ [][Next]_vars

----------------------------------------------------------------------------
(* raw_proxy_to_object on its own: every raw string up to MaxRawLen *)

InitParse ==
    /\ NoFetcher
    /\ IdleCall
    /\ raw_proxy \in SeqsUpTo(Alphabet, MaxRawLen)
    /\ parsed = NotParsed

\* ProxyListDownloadProvider.raw_proxy_to_object(raw_proxy) is called.
Parse ==
    /\ ~parsed.done
    /\ LET r == raw_proxy_to_object(raw_proxy) IN
       parsed' = [done |-> TRUE, exc |-> r.exc, proxy |-> r.proxy]
    /\ UNCHANGED raw_proxy
    /\ UNCHANGED fetcher_vars
    /\ UNCHANGED call_vars

NextParse == Parse

SpecParse == InitParse /\ [][NextParse]_vars

----------------------------------------------------------------------------
(* Properties *)

Keys(ps) == {Key(ps[i]) : i \in 1..Len(ps)}

Validated == "validate" \in Range(phases)

Passed_probes == {i \in 1..Len(probe) : probe[i] = "ok"}

\* C1: whenever the validator's result is empty, get / get_one (any limit, 0
\* included) raises NoProxiesFound; neither ever returns an empty list.
C1_EmptyResultRaises ==
    /\ (pc = "done" /\ Validated /\ valid_proxies = <<>>)
           => outcome = Raise("NoProxiesFound")
    /\ outcome.kind = "list" => outcome.items # <<>>

C1_Witness ==
    /\ pc = "done"
    /\ call.op = "get"
    /\ call.limit = 0
    /\ Len(validating) > 0
    /\ valid_proxies = <<>>
    /\ outcome = Raise("NoProxiesFound")

\* C2: get_one runs the pipeline with quota 1 and, when it does not fail, hands
\* the caller the single confirmed Proxy itself, not a list.
C2_GetOneReturnsProxy ==
    /\ (call.op = "get_one" /\ Validated) => quota = 1
    /\ (pc = "done" /\ call.op = "get_one" /\ outcome.kind # "raise")
           => outcome.kind = "proxy"

\* C3: when a provider's gather() failed with a transport error, aggregation
\* still proceeds and every candidate the other providers gathered is in the
\* merged list.
C3_ProviderFailureIsPartial ==
    ("aggregate" \in Range(phases) /\ \E i \in 1..Len(worker) : worker[i] = "raised")
        => /\ outcome.kind # "raise"
           /\ \A j \in 1..Len(worker) :
                worker[j] = "done" => Range(future[j].proxies) \subseteq Range(proxies)

\* C4: a caller sees a Proxy, a list, or one of exactly two errors,
\* NoInternetConnection and NoProxiesFound; no transport or parse error.
C4_OnlyTwoErrors ==
    /\ outcome.kind \in {"none", "proxy", "list", "raise"}
    /\ outcome.kind = "raise"
           => outcome.exc \in {"NoInternetConnection", "NoProxiesFound"}

\* C5: a failed connectivity check makes the construction raise
\* NoInternetConnection after a single check, with no filterer, validator or
\* event loop created and no provider gather() started.
C5_NoConnectivityNoWork ==
    constructed = "failed" =>
        /\ outcome = Raise("NoInternetConnection")
        /\ connectivity_checks = 1
        /\ proxy_filterer # "created"
        /\ proxy_validator # "created"
        /\ loop # "created"
        /\ pc = "idle"
        /\ worker = <<>>
        /\ phases = <<>>

C5_Witness ==
    /\ constructed = "failed"
    /\ Len(proxy_providers) > 0
    /\ proxy_filterer = "None"
    /\ proxy_validator = "None"
    /\ loop = "None"

\* C6: the aggregated list holds no two entries with equal
\* (protocol, address, port).
C6_AggregateHasNoDuplicates ==
    \A i, j \in 1..Len(proxies) :
        i # j => Key(proxies[i]) # Key(proxies[j])

C6_Witness ==
    /\ pc = "aggregated"
    /\ Len(proxy_providers) = 2
    /\ Len(proxies) = 2
    /\ gathered_total >= 5

IsNumeric(s) == s # <<>> /\ \A i \in 1..Len(s) : s[i] \in Digits

\* C7: raw_proxy_to_object raises ProxyParseException for every malformed raw
\* string (wrong field count, or non-numeric port) and for a well-formed one
\* returns the candidate with that ip, that port and the lower-cased protocol.
C7_ParseRejectsMalformed ==
    parsed.done =>
        LET fields == split(raw_proxy, Colon) IN
        IF Len(fields) # 3 \/ ~IsNumeric(fields[Len(fields)])
        THEN parsed.exc = "ProxyParseException"
        ELSE /\ parsed.exc = ""
             /\ parsed.proxy.ip = fields[2]
             /\ parsed.proxy.port = fields[3]
             /\ parsed.proxy.protocol = lower(fields[1])

\* C8: get(limit = n) returns at most n entries when n > 0; with n = 0 it
\* returns every filtered candidate that passed its probe.
C8_LimitCapsResult ==
    (pc = "done" /\ call.op = "get" /\ outcome.kind = "list") =>
        /\ call.limit > 0 => Len(outcome.items) <= call.limit
        /\ call.limit = 0 =>
              /\ Len(outcome.items) = Cardinality(Passed_probes)
              /\ Cardinality(Passed_probes) + Cardinality({i \in 1..Len(probe) : probe[i] = "failed"})
                     = Len(filtered_proxies)
              /\ Keys(outcome.items) = {Key(filtered_proxies[i]) : i \in Passed_probes}

C8_Witness ==
    /\ pc = "done"
    /\ call.op = "get"
    /\ call.limit = 1
    /\ outcome.kind = "list"
    /\ Len(outcome.items) = 1
    /\ \E i \in 1..Len(probe) : probe[i] = "cancelled"

IsPrefix(s, t) == Len(s) <= Len(t) /\ \A i \in 1..Len(s) : s[i] = t[i]

C9_State ==
    /\ IsPrefix(phases, <<"aggregate", "filter", "validate">>)
    /\ Validated => validating = filtered_proxies
    /\ Keys(filtered_proxies) \subseteq Keys(proxies)
    /\ Keys(confirmed) \subseteq {Key(validating[i]) : i \in Passed_probes}
    /\ Len(confirmed) = Cardinality(Passed_probes)
    /\ outcome.kind = "list" => outcome.items = valid_proxies /\ valid_proxies = confirmed

C9_AggregateStep ==
    (pc = "gathering" /\ pc' = "aggregated") =>
        Range(proxies') \subseteq UNION {Range(future[i].proxies) : i \in 1..Len(future)}

\* C9: get aggregates, then filters, then validates, in that order, and returns
\* the validator's result unchanged: the validator gets exactly the filtered
\* candidates, and every returned Proxy comes from a successful probe of a
\* filtered candidate that some provider gathered.
C9_PipelineOrder == []C9_State /\ [][C9_AggregateStep]_vars

C9_Witness ==
    /\ pc = "done"
    /\ outcome.kind = "list"
    /\ Len(proxies) = 2
    /\ Len(filtered_proxies) = 1
    /\ \E i \in 1..Len(probe) : probe[i] = "ok"

\* C10: per call every provider's gather() is started exactly once on a pool
\* of max(number of providers, 1) workers, and the merge begins only after all
\* workers have completed.
C10_BarrierBeforeMerge ==
    /\ pc # "idle" =>
          /\ max_workers >= 1
          /\ max_workers >= Len(proxy_providers)
          /\ max_workers = 1 \/ max_workers = Len(proxy_providers)
          /\ Len(worker) = Len(proxy_providers)
          /\ Cardinality(Running) <= max_workers
          /\ \A i \in 1..Len(worker) : starts[i] <= 1
          /\ \A i \in 1..Len(worker) : worker[i] = "submitted" <=> starts[i] = 0
    /\ "aggregate" \in Range(phases) =>
          \A i \in 1..Len(worker) : worker[i] \in {"done", "raised"} /\ starts[i] = 1

C10_Witness ==
    /\ pc = "aggregated"
    /\ Len(worker) = 2
    /\ \A i \in 1..Len(worker) : worker[i] = "done" /\ starts[i] = 1

====
